---- MODULE Spec2Model ----
(***************************************************************************)
(* Rule-based air-conditioner controller (Q2_SD23001.py).                  *)
(*                                                                         *)
(* The rule engine (evaluate_condition, rule_matches, run_rules) is a set  *)
(* of pure functions; they are operators here, applied by the actions of   *)
(* SpecCond and SpecRun to inputs drawn in the initial state.  The         *)
(* Streamlit script (load the rules file, read the sidebar, evaluate on    *)
(* the button) is the state machine Spec.                                  *)
(*                                                                         *)
(* Python values are tagged records.  A call that may raise returns a      *)
(* record with a `raised` flag, so that "does not raise" is checkable.     *)
(***************************************************************************)
EXTENDS Integers, Sequences, FiniteSets, TLC

VARIABLES pc, file, rules, rules_source, facts, run,
          cond, rule, condResult, matchResult, runResult

vars == <<pc, file, rules, rules_source, facts, run,
          cond, rule, condResult, matchResult, runResult>>

-----------------------------------------------------------------------------
(* Bounds of the model *)

\* longest rule list given to run_rules
MaxRules == 3
\* longest `conditions` sequence of a rule given to rule_matches
MaxConds == 2
\* largest priority of a rule
MaxPriority == 1
\* longest rule array in the rules file read by the script
MaxFileRules == 2

-----------------------------------------------------------------------------
(* Python values: numbers, booleans, strings, None, lists of scalars *)

Num(n)  == [t |-> "num",  n |-> n, s |-> "", l |-> <<>>]
Bool(b) == [t |-> "bool", n |-> IF b THEN 1 ELSE 0, s |-> "", l |-> <<>>]
Str(s)  == [t |-> "str",  n |-> 0, s |-> s, l |-> <<>>]
None    == [t |-> "none", n |-> 0, s |-> "", l |-> <<>>]
List(l) == [t |-> "list", n |-> 0, s |-> "", l |-> l]

\* outcome of a call: a returned boolean, or an exception
Returns(b) == [raised |-> FALSE, val |-> b]
Raises     == [raised |-> TRUE,  val |-> FALSE]

\* bool is a subclass of int: True == 1, True > 0
IsNumber(v) == v.t \in {"num", "bool"}

\* a == b on scalars
ScalarEq(a, b) ==
    IF IsNumber(a) /\ IsNumber(b) THEN a.n = b.n
    ELSE /\ a.t = b.t
         /\ a.t \in {"str", "none"}
         /\ a.s = b.s

\* a == b; lists are equal when they are equal element by element
PyEq(a, b) ==
    IF a.t = "list" /\ b.t = "list"
    THEN /\ Len(a.l) = Len(b.l)
         /\ \A i \in 1..Len(a.l) : ScalarEq(a.l[i], b.l[i])
    ELSE /\ a.t # "list"
         /\ b.t # "list"
         /\ ScalarEq(a, b)

\* the strings of the model in lexicographic (code point) order
StrOrder == <<"AFTERNOON", "EMPTY", "NIGHT", "OCC", "OCCUPIED">>
StrRank(s) == CHOOSE i \in 1..Len(StrOrder) : StrOrder[i] = s

\* a < b where one operand is a fact, a scalar: numbers with numbers,
\* strings with strings; every other pairing raises TypeError
PyLt(a, b) ==
    IF IsNumber(a) /\ IsNumber(b) THEN Returns(a.n < b.n)
    ELSE IF a.t = "str" /\ b.t = "str" THEN Returns(StrRank(a.s) < StrRank(b.s))
    ELSE Raises

PyLe(a, b) ==
    IF IsNumber(a) /\ IsNumber(b) THEN Returns(a.n <= b.n)
    ELSE IF a.t = "str" /\ b.t = "str" THEN Returns(StrRank(a.s) <= StrRank(b.s))
    ELSE Raises

\* a is a substring of b
Substring(a, b) ==
    \E i \in 0..(Len(b) - Len(a)) : SubSeq(b, i + 1, i + Len(a)) = a

\* a in b: membership in a list, substring of a string (TypeError unless a
\* is a string too), TypeError when b is not iterable
PyIn(a, b) ==
    IF b.t = "list" THEN Returns(\E i \in 1..Len(b.l) : ScalarEq(a, b.l[i]))
    ELSE IF b.t = "str" THEN (IF a.t = "str" THEN Returns(Substring(a.s, b.s)) ELSE Raises)
    ELSE Raises

\* a variant of Not that loses the negation
NotDropped(r) == r

Not(r) == IF r.raised THEN r ELSE Returns(~r.val)

-----------------------------------------------------------------------------
(* 1) Minimal rule engine *)

OPS == {"==", "!=", ">", ">=", "<", "<=", "in", "not_in"}

\* OPS[op](a, b)
ApplyOp(op, a, b) ==
    CASE op = "=="     -> Returns(PyEq(a, b))
      [] op = "!="     -> Returns(~PyEq(a, b))
      [] op = ">"      -> PyLt(b, a)
      [] op = ">="     -> PyLe(b, a)
      [] op = "<"      -> PyLt(a, b)
      [] op = "<="     -> PyLe(a, b)
      [] op = "in"     -> PyIn(a, b)
      [] op = "not_in" -> Not(PyIn(a, b))

\* a variant of evaluate_condition that reads the fact with
\* facts.get(field), so that an absent field is compared as None
evaluate_condition_GetField(f, c) ==
    IF Len(c) # 3 THEN Returns(FALSE)
    ELSE IF c[2] \notin OPS THEN Returns(FALSE)
    ELSE LET r == ApplyOp(c[2], IF c[1] \in DOMAIN f THEN f[c[1]] ELSE None, c[3])
         IN  IF r.raised THEN Returns(FALSE) ELSE r

\* a variant of evaluate_condition without the try / except
evaluate_condition_NoTry(f, c) ==
    IF Len(c) # 3 THEN Returns(FALSE)
    ELSE IF c[1] \notin DOMAIN f \/ c[2] \notin OPS THEN Returns(FALSE)
    ELSE ApplyOp(c[2], f[c[1]], c[3])

\* evaluate_condition(facts, cond): cond is a sequence, <<field, op, value>>
\* when it has three elements
evaluate_condition(f, c) ==
    IF Len(c) # 3 THEN Returns(FALSE)
    ELSE IF c[1] \notin DOMAIN f \/ c[2] \notin OPS THEN Returns(FALSE)
    ELSE LET r == ApplyOp(c[2], f[c[1]], c[3])
         IN  IF r.raised THEN Returns(FALSE) ELSE r

\* dict.get(key, default)
Get(d, key, default) == IF key \in DOMAIN d THEN d[key] ELSE default

\* all(evaluate_condition(facts, c) for c in cs[i:]): stops at the first
\* false condition, and an exception of a condition propagates
RECURSIVE AllFrom(_, _, _)
AllFrom(f, cs, i) ==
    IF i > Len(cs) THEN Returns(TRUE)
    ELSE LET r == evaluate_condition(f, cs[i])
         IN  IF r.raised THEN Raises
             ELSE IF ~r.val THEN Returns(FALSE)
             ELSE AllFrom(f, cs, i + 1)

\* a variant of rule_matches with any() in place of all()
rule_matches_Any(f, r) ==
    LET cs == Get(r, "conditions", <<>>)
    IN  Returns(\E i \in 1..Len(cs) : evaluate_condition(f, cs[i]).val)

rule_matches(f, r) == AllFrom(f, Get(r, "conditions", <<>>), 1)

\* the value of a rule's `priority`, 0 when the rule has none
Priority(r) == Get(r, "priority", 0)

\* a variant of the comprehension without its filter
FiredFrom_NoFilter(f, rs, i) == [raised |-> FALSE, fired |-> SubSeq(rs, i, Len(rs))]

\* [r for r in rs[i:] if rule_matches(facts, r)]
RECURSIVE FiredFrom(_, _, _)
FiredFrom(f, rs, i) ==
    IF i > Len(rs) THEN [raised |-> FALSE, fired |-> <<>>]
    ELSE LET m    == rule_matches(f, rs[i])
             rest == FiredFrom(f, rs, i + 1)
         IN  IF m.raised \/ rest.raised THEN [raised |-> TRUE, fired |-> <<>>]
             ELSE IF m.val THEN [raised |-> FALSE, fired |-> <<rs[i]>> \o rest.fired]
             ELSE rest

\* a variant of the insertion that puts r before the elements of its own
\* priority: a sort that is not stable
InsertByPriority_Unstable(s, r) ==
    LET n == Cardinality({i \in 1..Len(s) : Get(s[i], "priority", 0) > Get(r, "priority", 0)})
    IN  SubSeq(s, 1, n) \o <<r>> \o SubSeq(s, n + 1, Len(s))

\* one step of a stable sort by descending priority: r goes after every
\* element whose priority is at least its own
InsertByPriority(s, r) ==
    LET n == Cardinality({i \in 1..Len(s) : Priority(s[i]) >= Priority(r)})
    IN  SubSeq(s, 1, n) \o <<r>> \o SubSeq(s, n + 1, Len(s))

\* sorted(rs, key=lambda r: r.get("priority", 0), reverse=True): a stable
\* sort, and reverse=True keeps the order of elements with equal keys
RECURSIVE SortedUpTo(_, _)
SortedUpTo(rs, n) ==
    IF n = 0 THEN <<>> ELSE InsertByPriority(SortedUpTo(rs, n - 1), rs[n])

\* a variant of the sort without reverse=True: lowest priority first
SortedByPriority_Ascending(rs) ==
    LET d == SortedUpTo(rs, Len(rs))
    IN  [i \in 1..Len(d) |-> d[Len(d) + 1 - i]]

SortedByPriority(rs) == SortedUpTo(rs, Len(rs))

Action(mode, fan, setpoint, reason) ==
    [ac_mode |-> mode, fan_speed |-> fan, setpoint |-> setpoint, reason |-> reason]

NoRuleMatched == Action("REVIEW", "-", None, "No rule matched")
NoAction      == Action("REVIEW", "-", None, "No action")
\* placeholder for the value of a call that raised
NoValue       == Action("", "", None, "")

\* a variant of run_rules without the `if not fired` return:
\* fired_sorted[0] raises IndexError on an empty list
run_rules_NoEmptyCheck(f, rs) ==
    LET fr == FiredFrom(f, rs, 1)
    IN  IF fr.raised \/ Len(fr.fired) = 0
        THEN [raised |-> TRUE, action |-> NoValue, fired |-> <<>>]
        ELSE LET fired_sorted == SortedByPriority(fr.fired)
             IN  [raised |-> FALSE,
                  action |-> Get(fired_sorted[1], "action", NoAction),
                  fired  |-> fired_sorted]

\* a variant of run_rules whose .get("action") has no default
run_rules_NoDefault(f, rs) ==
    LET fr == FiredFrom(f, rs, 1)
    IN  IF fr.raised THEN [raised |-> TRUE, action |-> NoValue, fired |-> <<>>]
        ELSE IF Len(fr.fired) = 0
        THEN [raised |-> FALSE, action |-> NoRuleMatched, fired |-> <<>>]
        ELSE LET fired_sorted == SortedByPriority(fr.fired)
             IN  [raised |-> FALSE,
                  action |-> Get(fired_sorted[1], "action", NoValue),
                  fired  |-> fired_sorted]

\* run_rules(facts, rules): (best_action, fired_rules), or an exception
run_rules(f, rs) ==
    LET fr == FiredFrom(f, rs, 1)
    IN  IF fr.raised THEN [raised |-> TRUE, action |-> NoValue, fired |-> <<>>]
        ELSE IF Len(fr.fired) = 0
        THEN [raised |-> FALSE, action |-> NoRuleMatched, fired |-> <<>>]
        ELSE LET fired_sorted == SortedByPriority(fr.fired)
             IN  [raised |-> FALSE,
                  action |-> Get(fired_sorted[1], "action", NoAction),
                  fired  |-> fired_sorted]

-----------------------------------------------------------------------------
(* 2) Load rules from JSON file *)

\* a variant of the fallback that holds a default rule
DEFAULT_RULES_FALLBACK_OneRule ==
    <<[action |-> Action("COOL", "HIGH", Num(24), "Hot")]>>

DEFAULT_RULES_FALLBACK == <<>>

\* The rules file: absent, not JSON, or a JSON value that is an array
\* (data) or something else.
FileMissing    == [exists |-> FALSE, json |-> FALSE, array |-> FALSE, data |-> <<>>]
FileNotJson    == [exists |-> TRUE,  json |-> FALSE, array |-> FALSE, data |-> <<>>]
FileNotArray   == [exists |-> TRUE,  json |-> TRUE,  array |-> FALSE, data |-> <<>>]
FileArray(rs)  == [exists |-> TRUE,  json |-> TRUE,  array |-> TRUE,  data |-> rs]

\* load_rules_from_path(path): open() raises on a missing file, json.load
\* on a malformed one, and a value that is not a list raises ValueError
load_rules_from_path(fl) ==
    IF ~fl.exists \/ ~fl.json \/ ~fl.array
    THEN [raised |-> TRUE, data |-> <<>>]
    ELSE [raised |-> FALSE, data |-> fl.data]

-----------------------------------------------------------------------------
(* Inputs of the engine *)

\* every sequence over S of length at most n
SeqsUpTo(S, n) == UNION {[1..k -> S] : k \in 0..n}

\* every fact mapping over some of the fields
FactsOver(fields, values) == UNION {[S -> values] : S \in SUBSET fields}

NoKey == <<>>

CondFacts == FactsOver({"temperature", "occupancy"},
                       {Num(20), Num(30), Str("OCCUPIED"), Str("OCC"), Bool(TRUE)})

CondValues == {Num(28), Num(30), Str("OCCUPIED"), None,
               List(<<Str("OCCUPIED"), Num(30)>>)}

\* conditions given to evaluate_condition: every triple over the fields,
\* the operators (two of them unknown) and the values, and conditions of
\* 0, 1, 2 and 4 elements
Conditions ==
    {<<f, o, v>> : f \in {"temperature", "occupancy", "co2"},
                   o \in OPS \cup {"=>", "contains"},
                   v \in CondValues}
    \cup {<<>>, <<"temperature">>, <<"temperature", ">">>,
          <<"temperature", ">", Num(28), Num(28)>>}

CondHot      == <<"temperature", ">", Num(28)>>
CondOccupied == <<"occupancy", "in", List(<<Str("OCCUPIED"), Num(30)>>)>>
CondNotInNum == <<"temperature", "not_in", Num(28)>>
CondUnknown  == <<"temperature", "=>", Num(28)>>
CondShort    == <<"temperature", ">">>

\* rules given to rule_matches
MatchRules ==
    {"conditions" :> cs :
        cs \in SeqsUpTo({CondHot, CondOccupied, CondNotInNum, CondUnknown, CondShort},
                        MaxConds)}
    \cup {NoKey, "priority" :> 1}

Cool == Action("COOL", "HIGH", Num(24), "Hot")
Dry  == Action("DRY", "LOW", Num(26), "Humid")

RunFacts == FactsOver({"temperature"}, {Num(20), Num(30), Str("OCCUPIED")})

\* rules given to run_rules: each key present or absent, and one rule of
\* the greatest priority whose only condition tests not_in against a number
RunRules ==
    {c @@ p @@ a :
        c \in {NoKey, "conditions" :> <<CondHot>>},
        p \in {NoKey} \cup {"priority" :> n : n \in 0..MaxPriority},
        a \in {NoKey, "action" :> Cool}}
    \cup {[conditions |-> <<CondNotInNum>>, priority |-> MaxPriority, action |-> Dry]}

RuleLists == SeqsUpTo(RunRules, MaxRules)

NoResult    == Returns(FALSE)
NoRunResult == [raised |-> FALSE, action |-> NoValue, fired |-> <<>>]

-----------------------------------------------------------------------------
(* The engine's functions applied to the inputs *)

InitEngine ==
    /\ file = FileMissing
    /\ rules_source = ""
    /\ run = FALSE
    /\ cond = <<>>
    /\ rule = NoKey
    /\ condResult = NoResult
    /\ matchResult = NoResult
    /\ runResult = NoRunResult

InitCond ==
    /\ InitEngine
    /\ pc = "input"
    /\ facts \in CondFacts
    /\ rules = <<>>

InitRun ==
    /\ InitEngine
    /\ pc = "input"
    /\ facts \in RunFacts
    /\ rules \in RuleLists

EvaluateCondition ==
    /\ pc = "input"
    /\ \E c \in Conditions :
          /\ cond' = c
          /\ condResult' = evaluate_condition(facts, c)
    /\ pc' = "evaluated"
    /\ UNCHANGED <<file, rules, rules_source, facts, run, rule, matchResult, runResult>>

RuleMatches ==
    /\ pc = "input"
    /\ \E r \in MatchRules :
          /\ rule' = r
          /\ matchResult' = rule_matches(facts, r)
    /\ pc' = "matched"
    /\ UNCHANGED <<file, rules, rules_source, facts, run, cond, condResult, runResult>>

RunRulesCall ==
    /\ pc = "input"
    /\ runResult' = run_rules(facts, rules)
    /\ pc' = "returned"
    /\ UNCHANGED <<file, rules, rules_source, facts, run, cond, rule, condResult, matchResult>>

NextCond == EvaluateCondition \/ RuleMatches

SpecCond == InitCond /\ [][NextCond]_vars

SpecRun == InitRun /\ [][RunRulesCall]_vars

-----------------------------------------------------------------------------
(* 3) Streamlit UI: one run of the script after another *)

Files == {FileMissing, FileNotJson, FileNotArray}
         \cup {FileArray(rs) : rs \in SeqsUpTo(RunRules, MaxFileRules)}

Init ==
    /\ InitEngine
    /\ pc = "load"
    /\ facts = NoKey
    /\ rules = <<>>

\* try: rules = load_rules_from_path(RULES_FILE_PATH)
\* except Exception: rules = DEFAULT_RULES_FALLBACK
LoadRules ==
    /\ pc = "load"
    /\ \E fl \in Files :
          /\ file' = fl
          /\ LET r == load_rules_from_path(fl)
             IN  IF r.raised
                 THEN /\ rules' = DEFAULT_RULES_FALLBACK
                      /\ rules_source' = "Fallback rules (empty)"
                 ELSE /\ rules' = r.data
                      /\ rules_source' = "Loaded from: json_q2.txt"
    /\ pc' = "sidebar"
    /\ UNCHANGED <<facts, run, cond, rule, condResult, matchResult, runResult>>

\* the sidebar widgets, the Evaluate button and the facts built from them
Sidebar ==
    /\ pc = "sidebar"
    /\ \E temperature \in {20, 30}, occupancy \in {"OCCUPIED", "EMPTY"},
          time_of_day \in {"AFTERNOON", "NIGHT"}, button \in BOOLEAN :
          /\ facts' = [temperature  |-> Num(temperature),
                       humidity     |-> Num(46),
                       occupancy    |-> Str(occupancy),
                       time_of_day  |-> Str(time_of_day),
                       windows_open |-> Bool(FALSE)]
          /\ run' = button
    /\ pc' = "facts"
    /\ UNCHANGED <<file, rules, rules_source, cond, rule, condResult, matchResult, runResult>>

\* if run: action, fired = run_rules(facts, rules)
Evaluate ==
    /\ pc = "facts"
    /\ run
    /\ runResult' = run_rules(facts, rules)
    /\ pc' = "shown"
    /\ UNCHANGED <<file, rules, rules_source, facts, run, cond, rule, condResult, matchResult>>

\* else: st.info("Set the home facts and click Evaluate.")
Idle ==
    /\ pc = "facts"
    /\ ~run
    /\ pc' = "info"
    /\ UNCHANGED <<file, rules, rules_source, facts, run, cond, rule, condResult,
                   matchResult, runResult>>

\* any interaction with the page runs the script again from the top, with
\* none of the names of the previous run
Rerun ==
    /\ pc \in {"shown", "info"}
    /\ pc' = "load"
    /\ file' = FileMissing
    /\ rules' = <<>>
    /\ rules_source' = ""
    /\ facts' = NoKey
    /\ run' = FALSE
    /\ runResult' = NoRunResult
    /\ UNCHANGED <<cond, rule, condResult, matchResult>>

Next == LoadRules \/ Sidebar \/ Evaluate \/ Idle \/ Rerun

Spec == Init /\ [][Next]_vars

-----------------------------------------------------------------------------
(* Vocabulary of the properties *)

\* a rule's priority as the specification reads it: 0 when absent
PriorityOrZero(r) == IF "priority" \in DOMAIN r THEN r["priority"] ELSE 0

\* all of a rule's conditions hold
Matches(f, r) ==
    LET cs == IF "conditions" \in DOMAIN r THEN r["conditions"] ELSE <<>>
    IN  \A i \in 1..Len(cs) : evaluate_condition(f, cs[i]) = Returns(TRUE)

\* the positions of the rules that match
MatchingPositions(f, rs) == {i \in 1..Len(rs) : Matches(f, rs[i])}

\* the matching rules, in input order
RECURSIVE MatchingFrom(_, _, _)
MatchingFrom(f, rs, i) ==
    IF i > Len(rs) THEN <<>>
    ELSE (IF Matches(f, rs[i]) THEN <<rs[i]>> ELSE <<>>) \o MatchingFrom(f, rs, i + 1)

\* the elements of s whose priority is p, in order
RECURSIVE WithPriority(_, _)
WithPriority(s, p) ==
    IF Len(s) = 0 THEN <<>>
    ELSE (IF PriorityOrZero(Head(s)) = p THEN <<Head(s)>> ELSE <<>>)
         \o WithPriority(Tail(s), p)

Count(s, x) == Cardinality({i \in 1..Len(s) : s[i] = x})

Range(s) == {s[i] : i \in 1..Len(s)}

SamePermutation(s, t) ==
    /\ Len(s) = Len(t)
    /\ \A x \in Range(s) \cup Range(t) : Count(s, x) = Count(t, x)

\* the position of the matching rule of greatest priority, the earliest of
\* them when several share it
Winner(f, rs) ==
    CHOOSE i \in MatchingPositions(f, rs) :
        \A j \in MatchingPositions(f, rs) :
            \/ PriorityOrZero(rs[i]) > PriorityOrZero(rs[j])
            \/ PriorityOrZero(rs[i]) = PriorityOrZero(rs[j]) /\ i <= j

Returned == pc = "returned" /\ ~runResult.raised

\* a condition whose comparison itself fails
ComparisonFails(f, c) ==
    /\ Len(c) = 3
    /\ c[1] \in DOMAIN f
    /\ \/ c[2] \in {">", ">=", "<", "<="} /\ ~(f[c[1]].t = c[3].t \/ (IsNumber(f[c[1]]) /\ IsNumber(c[3])))
       \/ c[2] \in {"in", "not_in"} /\ c[3].t \notin {"list", "str"}

HasFailingComparison(f, r) ==
    /\ "conditions" \in DOMAIN r
    /\ \E i \in 1..Len(r["conditions"]) : ComparisonFails(f, r["conditions"][i])

-----------------------------------------------------------------------------
(* Properties of run_rules, under SpecRun *)

\* C1: the fired list returned by run_rules is ordered by non-increasing
\* priority (no `priority` key counts as 0), and the fired rules of one
\* priority are in the order they have in the input rule list.
C1_FiredSortedStable ==
    Returned =>
        /\ \A i, j \in 1..Len(runResult.fired) :
              i < j => PriorityOrZero(runResult.fired[i]) >= PriorityOrZero(runResult.fired[j])
        /\ \A p \in 0..(MaxPriority + 1) :
              WithPriority(runResult.fired, p)
                  = WithPriority(MatchingFrom(facts, rules, 1), p)

C1_Witness ==
    /\ Returned
    /\ Len(runResult.fired) = 3
    /\ runResult.fired # MatchingFrom(facts, rules, 1)
    /\ PriorityOrZero(runResult.fired[2]) = PriorityOrZero(runResult.fired[3])
    /\ runResult.fired[2] # runResult.fired[3]
    /\ "priority" \notin DOMAIN runResult.fired[2]

\* C2: when at least one rule matches, the action returned is the action of
\* the matching rule of greatest priority, the earliest in the input list
\* among those that share it.
C2_WinnerAction ==
    (Returned /\ MatchingPositions(facts, rules) # {}) =>
        LET w == rules[Winner(facts, rules)]
        IN  /\ runResult.fired[1] = w
            /\ "action" \in DOMAIN w => runResult.action = w["action"]

C2_Witness ==
    /\ Returned
    /\ Len(rules) = 3
    /\ Cardinality(MatchingPositions(facts, rules)) >= 2
    /\ Winner(facts, rules) = 2
    /\ PriorityOrZero(rules[2]) = PriorityOrZero(rules[3])
    /\ Matches(facts, rules[3])
    /\ rules[2] # rules[3]
    /\ runResult.action = Cool

\* C3: when no rule's conditions all hold (the empty list included),
\* run_rules returns the sentinel action REVIEW / "-" / null /
\* "No rule matched" and an empty fired list.
C3_NoMatchSentinel ==
    (pc = "returned" /\ MatchingPositions(facts, rules) = {}) =>
        runResult = [raised |-> FALSE,
                     action |-> [ac_mode |-> "REVIEW", fan_speed |-> "-",
                                 setpoint |-> None, reason |-> "No rule matched"],
                     fired  |-> <<>>]

C3_Witness ==
    /\ pc = "returned"
    /\ Len(rules) = 2
    /\ MatchingPositions(facts, rules) = {}
    /\ "temperature" \in DOMAIN facts
    /\ runResult.action.reason = "No rule matched"

\* C4: the fired list is a permutation of the subsequence of the input
\* rules that match: every fired rule matches, every matching rule is
\* fired, each as many times as it occurs in the input.
C4_FiredExactlyMatching ==
    Returned =>
        /\ SamePermutation(runResult.fired, MatchingFrom(facts, rules, 1))
        /\ \A i \in 1..Len(runResult.fired) : Matches(facts, runResult.fired[i])

C4_Witness ==
    /\ Returned
    /\ Len(rules) = 3
    /\ Len(runResult.fired) = 2
    /\ runResult.fired[1] = runResult.fired[2]
    /\ ~Matches(facts, rules[2])

\* C5: when the winning rule has no `action` key, run_rules returns the
\* fallback action REVIEW / "No action", not the action of a lower-ranked
\* matching rule, and the fired list still holds every matching rule.
C5_MissingActionFallback ==
    (pc = "returned" /\ MatchingPositions(facts, rules) # {}
       /\ "action" \notin DOMAIN rules[Winner(facts, rules)]) =>
        /\ ~runResult.raised
        /\ runResult.action = [ac_mode |-> "REVIEW", fan_speed |-> "-",
                               setpoint |-> None, reason |-> "No action"]
        /\ \A i \in MatchingPositions(facts, rules) :
              Count(runResult.fired, rules[i]) = Count(MatchingFrom(facts, rules, 1), rules[i])

C5_Witness ==
    /\ pc = "returned"
    /\ Cardinality(MatchingPositions(facts, rules)) >= 2
    /\ "action" \notin DOMAIN rules[Winner(facts, rules)]
    /\ \E i \in MatchingPositions(facts, rules) : "action" \in DOMAIN rules[i]
    /\ runResult.action.reason = "No action"

\* C9: run_rules returns a pair (action, fired list) and never raises, also
\* when a condition's comparison fails (an ordering between incompatible
\* types, in / not_in against a value that is no collection): the rule of
\* that condition is not fired and the other rules are still evaluated.
C9_NeverRaises ==
    pc = "returned" =>
        /\ ~runResult.raised
        /\ \A i \in 1..Len(rules) :
              /\ HasFailingComparison(facts, rules[i]) => Count(runResult.fired, rules[i]) = 0
              /\ Matches(facts, rules[i]) => Count(runResult.fired, rules[i]) > 0
        /\ runResult.action \in
              {NoRuleMatched, NoAction} \cup {r["action"] : r \in {x \in Range(rules) : "action" \in DOMAIN x}}

C9_Witness ==
    /\ pc = "returned"
    /\ Len(rules) = 3
    /\ HasFailingComparison(facts, rules[1])
    /\ rules[1]["conditions"][1][2] = "not_in"
    /\ HasFailingComparison(facts, rules[2])
    /\ rules[2]["conditions"][1][2] = ">"
    /\ runResult.fired = <<rules[3]>>

-----------------------------------------------------------------------------
(* Properties of evaluate_condition and rule_matches, under SpecCond *)

\* C6: evaluate_condition returns false, without raising, for a condition
\* that does not have exactly three elements, or whose operator is not one
\* of ==, !=, >, >=, <, <=, in, not_in, or whose field is absent from the
\* facts -- whatever the operator, != and not_in included.
C6_MalformedIsFalse ==
    (/\ pc = "evaluated"
     /\ \/ Len(cond) # 3
        \/ cond[2] \notin {"==", "!=", ">", ">=", "<", "<=", "in", "not_in"}
        \/ cond[1] \notin DOMAIN facts)
    => condResult = [raised |-> FALSE, val |-> FALSE]

C6_Witness ==
    /\ pc = "evaluated"
    /\ Len(cond) = 3
    /\ cond[1] = "occupancy"
    /\ DOMAIN facts = {"temperature"}
    /\ cond[2] = "!="
    /\ cond[3] = None
    /\ condResult = [raised |-> FALSE, val |-> FALSE]

\* the state holds the result of a not_in condition on a field of the facts
EvaluatedNotIn ==
    /\ pc = "evaluated"
    /\ Len(cond) = 3
    /\ cond[2] = "not_in"
    /\ cond[1] \in DOMAIN facts

\* the membership test a in b is defined: b is a list, or b is a string and
\* a is a string
MembershipDefined(a, b) == b.t = "list" \/ (b.t = "str" /\ a.t = "str")

\* C7, as claimed: for every fact set holding the field and every
\* comparison value, the not_in condition is true exactly when the in
\* condition is false.
C7_ComplementForEveryValue ==
    EvaluatedNotIn =>
        (condResult.val <=> ~evaluate_condition(facts, <<cond[1], "in", cond[3]>>).val)

\* C7, amended: the not_in condition is true exactly when the in condition
\* is false for every comparison value on which the membership test is
\* defined (a list, or a string when the fact is a string); on every other
\* value the test fails and both conditions are false.
C7_ComplementWhereDefined ==
    EvaluatedNotIn =>
        LET isIn == evaluate_condition(facts, <<cond[1], "in", cond[3]>>)
        IN  /\ ~condResult.raised
            /\ ~isIn.raised
            /\ IF MembershipDefined(facts[cond[1]], cond[3])
               THEN condResult.val <=> ~isIn.val
               ELSE ~condResult.val /\ ~isIn.val

C7_Witness ==
    /\ EvaluatedNotIn
    /\ cond[3].t = "list"
    /\ facts[cond[1]] = Num(20)
    /\ condResult.val

\* C8: rule_matches returns true exactly when every condition of the rule's
\* `conditions` evaluates to true; a rule whose `conditions` is empty or
\* absent matches every fact set, the empty one included.
C8_MatchIffAllHold ==
    pc = "matched" =>
        LET cs == IF "conditions" \in DOMAIN rule THEN rule["conditions"] ELSE <<>>
        IN  /\ matchResult =
                  [raised |-> FALSE,
                   val |-> \A i \in 1..Len(cs) :
                              evaluate_condition(facts, cs[i]) = Returns(TRUE)]
            /\ Len(cs) = 0 => matchResult.val

C8_Witness ==
    /\ pc = "matched"
    /\ DOMAIN facts = {}
    /\ "conditions" \notin DOMAIN rule
    /\ matchResult = [raised |-> FALSE, val |-> TRUE]

-----------------------------------------------------------------------------
(* Property of the script, under Spec *)

LoadFailed == ~file.exists \/ ~file.json \/ ~file.array

\* C10: when loading the rules file fails (file missing, not JSON, or a
\* JSON value that is no array) the active rule set is the empty list and
\* the evaluation that follows returns the "No rule matched" REVIEW
\* sentinel with an empty fired list, whatever the facts; an array is
\* taken as the rule set unchanged.
C10_LoadFailureGivesSentinel ==
    pc \in {"sidebar", "facts", "shown", "info"} =>
        IF LoadFailed
        THEN /\ rules = <<>>
             /\ pc = "shown" =>
                   runResult = [raised |-> FALSE,
                                action |-> [ac_mode |-> "REVIEW", fan_speed |-> "-",
                                            setpoint |-> None,
                                            reason |-> "No rule matched"],
                                fired  |-> <<>>]
        ELSE rules = file.data

C10_Witness ==
    /\ pc = "shown"
    /\ file = FileNotArray
    /\ facts["temperature"] = Num(30)
    /\ runResult.action.reason = "No rule matched"
    /\ runResult.fired = <<>>

====
